---- MODULE Spec2Model ----
(***************************************************************************)
(* Model of create_eucs_catalogs_profiles.py: run() reads the rows of the  *)
(* "controls" sheet, builds the catalog tree (groups -> controls ->        *)
(* requirement headline -> requirement parts) and three profile lists in   *)
(* one linear pass, then writes the catalog and three profiles.            *)
(*                                                                         *)
(* Strings are sequences of one-character strings, so that indexing        *)
(* ([-1], [:-1], [-2:]), concatenation, lower() and split() are computed.  *)
(* Python objects live in heaps (categories, controls) and are referred to *)
(* by their index; a local variable that holds an object holds its index.  *)
(***************************************************************************)
EXTENDS Naturals, Sequences, FiniteSets

\* ------------------------------------------------------------------ bounds
MaxRows == 5
MaxRequirementRows == 4
MaxWorkbookRows == 2
MaxSheets == 2

\* ----------------------------------------------------------------- strings
\* Values that are not strings: a blank cell (pandas NaN), Python's None and
\* a local variable that was never assigned.  Each is a one-element tuple
\* whose element is no single character, so it equals no string.
NaN == <<"NaN">>
None == <<"None">>
Unbound == <<"Unbound">>
NoObject == 0
NoException == "NoException"
\* A file of the output directory: absent, or holding one document.
Absent == <<>>
Holding(document) == << document >>

isna(v) == v = NaN
notna(v) == v # NaN

Last(s) == s[Len(s)]
ButLast(s) == SubSeq(s, 1, Len(s) - 1)
\* s[-2:]
LastTwo(s) == IF Len(s) <= 2 THEN s ELSE SubSeq(s, Len(s) - 1, Len(s))

UpperCase == <<"A","B","C","D","E","F","G","H","I","J","K","L","M",
               "N","O","P","Q","R","S","T","U","V","W","X","Y","Z">>
LowerCase == <<"a","b","c","d","e","f","g","h","i","j","k","l","m",
               "n","o","p","q","r","s","t","u","v","w","x","y","z">>

LowerChar(c) ==
  IF \E i \in 1..26 : UpperCase[i] = c
  THEN LowerCase[CHOOSE i \in 1..26 : UpperCase[i] = c]
  ELSE c

\* str.lower()
lower(s) == [i \in 1..Len(s) |-> LowerChar(s[i])]

\* sub in s
Contains(sub, s) ==
  \E i \in 1..(Len(s) - Len(sub) + 1) : SubSeq(s, i, i + Len(sub) - 1) = sub

IsSpace(c) == c = " "

RECURSIVE SkipSpaces(_)
SkipSpaces(s) ==
  IF s = <<>> THEN <<>>
  ELSE IF IsSpace(Head(s)) THEN SkipSpaces(Tail(s)) ELSE s

RECURSIVE TakeWord(_)
TakeWord(s) ==
  IF s = <<>> \/ IsSpace(Head(s)) THEN <<>>
  ELSE <<Head(s)>> \o TakeWord(Tail(s))

\* str.split(): the words of s, split on runs of whitespace
RECURSIVE split(_)
split(s) ==
  LET t == SkipSpaces(s) IN
  IF t = <<>> THEN <<>>
  ELSE LET w == TakeWord(t) IN <<w>> \o split(SubSeq(t, Len(w) + 1, Len(t)))

controls_word == <<"c","o","n","t","r","o","l","s">>
eucs_prefix == <<"e","u","c","s","-">>
dot == <<".">>
obj_suffix == <<"_","o","b","j">>
req_suffix == <<"_","r","e","q">>
dash == <<" ","-"," ">>

\* ------------------------------------------------------------------ inputs
\* Sheet names of the workbook (excel_handler.sheet_names).
SheetNameValues ==
  { <<"I","n","t","r","o">>,
    <<"C","o","n","t","r","o","l","s">>,
    <<"m","y"," ","C","O","N","T","R","O","L","S">> }

Injective(s) ==
  \A i, j \in 1..Len(s) : i # j => s[i] # s[j]

RECURSIVE SeqsUpTo(_, _)
SeqsUpTo(S, n) ==
  IF n = 0 THEN { <<>> }
  ELSE LET shorter == SeqsUpTo(S, n - 1) IN
       shorter \cup { Append(q, x) : q \in { t \in shorter : Len(t) = n - 1 }, x \in S }

\* A workbook holds at least one sheet and no two sheets of the same name.
Workbooks == { w \in SeqsUpTo(SheetNameValues, MaxSheets) : Len(w) >= 1 /\ Injective(w) }

\* Cell values of the sheet, read with dtype=str: a string, or NaN when blank.
CategoryA == <<"A">>
CategoryB == <<"B">>
ControlA1 == <<"A","1">>
ControlA2 == <<"A","2">>
TitleDoIt == <<"D","o"," ","I","t">>
TitleA1 == <<"A","1"," ","D","o">>
TitleA2 == <<"A","2"," ","D","o">>
TitleUp == <<" ","U","p">>
TitleBlanks == <<" ">>
Text == <<"d">>
Mark == <<"x">>
RequirementValues == { <<"R","1","B">>, <<"R","1","S">>, <<"R","2","X">> }
FlagValues == { NaN, Mark }

MakeRow(category_cell, control_cell, requirement_cell, title_cell, description_cell, flags) ==
  [ category |-> category_cell, control |-> control_cell,
    requirement |-> requirement_cell, title |-> title_cell,
    description |-> description_cell, basic |-> flags[1],
    substantial |-> flags[2], high |-> flags[3] ]

NoFlags == << NaN, NaN, NaN >>
AllFlags == FlagValues \X FlagValues \X FlagValues

\* Rows that match none of the three patterns: a blank line, a control or a
\* requirement without its category, a requirement without its control.
UnmatchedRows ==
  { MakeRow(NaN, NaN, NaN, NaN, NaN, NoFlags),
    MakeRow(NaN, ControlA1, NaN, TitleA1, Text, NoFlags),
    MakeRow(NaN, ControlA2, NaN, TitleA2, Text, NoFlags),
    MakeRow(CategoryA, NaN, <<"R","1","B">>, NaN, Text, << Mark, NaN, NaN >>) }

\* The title of a control's row starts with the control's id.
TitleOf(control_cell) == IF control_cell = ControlA1 THEN TitleA1 ELSE TitleA2

\* The rows of the runs that exercise the tree: two categories, two controls
\* under either, titles that split() accepts and rejects, requirement rows of
\* either control with the basic flag or none, and the unmatched rows.
TreeRows ==
  { MakeRow(c, NaN, NaN, TitleDoIt, NaN, NoFlags) : c \in { CategoryA, CategoryB } }
  \cup { MakeRow(c, k, NaN, TitleOf(k), Text, NoFlags) :
           c \in { CategoryA, CategoryB }, k \in { ControlA1, ControlA2 } }
  \cup { MakeRow(CategoryA, ControlA1, NaN, t, Text, NoFlags) : t \in { NaN, TitleBlanks } }
  \cup { MakeRow(CategoryA, k, <<"R","1","B">>, NaN, Text, f) :
           k \in { ControlA1, ControlA2 }, f \in { NoFlags, << Mark, NaN, NaN >> } }
  \cup { MakeRow(CategoryA, ControlA1, <<"R","1","B">>, NaN, NaN, << Mark, NaN, NaN >>) }
  \cup UnmatchedRows

\* The rows of the runs that exercise the requirements: one category, one
\* control, and every requirement identifier with every subset of the tier
\* flags, with and without a description.
RequirementRows ==
  { MakeRow(CategoryA, NaN, NaN, TitleDoIt, NaN, NoFlags) }
  \cup { MakeRow(CategoryA, ControlA1, NaN, t, Text, NoFlags) : t \in { TitleUp, NaN } }
  \cup { MakeRow(CategoryA, ControlA1, q, NaN, d, f) :
           q \in RequirementValues, d \in { NaN, Text }, f \in AllFlags }
  \cup { MakeRow(NaN, NaN, NaN, NaN, NaN, NoFlags) }

\* ----------------------------------------------------------- constructors
create_category(category_id, category_title) ==
  [ id |-> eucs_prefix \o category_id,
    title |-> category_title,
    label |-> category_id \o dot,
    controls |-> <<>> ]

\* control_title.split()[0]; raises when the title is NaN (a float has no
\* split) or holds no word (index out of range)
TitleRaises(control_title) == isna(control_title) \/ split(control_title) = <<>>
TitleToken(control_title) == split(control_title)[1]

create_objective_headline(category_id, control_title, control_objective) ==
  [ name |-> "statement",
    id |-> eucs_prefix \o category_id \o dot \o TitleToken(control_title) \o obj_suffix,
    label |-> "1.",
    alt_identifier |-> "Objective",
    prose |-> control_objective ]

create_requirement_headline(category_id, control_title) ==
  [ name |-> "statement",
    id |-> eucs_prefix \o category_id \o dot \o TitleToken(control_title) \o req_suffix,
    label |-> "2.",
    alt_identifier |-> "Requirements",
    parts |-> <<>> ]

create_control(category_id, control_id, control_title) ==
  [ id |-> eucs_prefix \o category_id \o dot \o TitleToken(control_title),
    class |-> "eucs",
    title |-> control_title,
    label |-> <<Last(control_id)>> \o dot,
    parts |-> <<>> ]

\* requirement_id + ' - ' + requirement_description raises when the
\* description is NaN (str + float)
ProseRaises(requirement_description) == isna(requirement_description)

create_requirement(severity_level, requirement_id, category_id, control_title, requirement_description) ==
  [ name |-> "item",
    class |-> severity_level,
    alt_identifier |-> requirement_id,
    id |-> eucs_prefix \o category_id \o dot \o TitleToken(control_title)
             \o req_suffix \o dot \o LastTwo(requirement_id),
    prose |-> requirement_id \o dash \o requirement_description ]

\* ------------------------------------------------------------------- state
VARIABLES
  pc,                          \* where run() stands
  error,                       \* the exception that ended the run
  sheet_names,                 \* excel_handler.sheet_names
  sheet_name,                  \* the sheet read into df
  nrows,                       \* rows of df iterated so far
  row,                         \* the loop variable
  catalog_groups,              \* catalog.groups: references to Group objects
  categories,                  \* heap of Group objects
  controls,                    \* heap of Control objects
  headlines,                   \* heap of requirement headline Part objects
  category,                    \* local variable: reference to a Group
  requirement_headline,        \* local variable: reference to a headline
  current_loop_control_title,
  current_loop_category,
  current_loop_control,
  basic_profile,
  substantial_profile,
  high_profile,
  profile,                     \* the one Profile object: its imports
  files,                       \* the output directory: file -> document
  created_from,                \* history: the ids each Control was created with
  open_category,               \* history: see RowOrderStep
  open_control,
  rows_ordered

vars ==
  << pc, error, sheet_names, sheet_name, nrows, row, catalog_groups, categories,
     controls, headlines, category, requirement_headline,
     current_loop_control_title, current_loop_category, current_loop_control,
     basic_profile, substantial_profile, high_profile, profile, files,
     created_from, open_category, open_control, rows_ordered >>

sheetVars == << sheet_names, sheet_name >>
treeVars == << catalog_groups, categories, controls, headlines, created_from >>
localVars == << category, requirement_headline, current_loop_control_title >>
lookBackVars == << current_loop_category, current_loop_control >>
profileVars == << basic_profile, substantial_profile, high_profile >>
outputVars == << profile, files >>
orderVars == << open_category, open_control, rows_ordered >>

Tiers == { "basic", "substantial", "high" }
FileNames == { "catalog", "Basic", "Substantial", "High" }

\* The local variables of run() before its first statement.
LocalsInit(names) ==
  /\ sheet_names = names
  /\ sheet_name = Unbound
  /\ nrows = 0
  /\ row = Unbound
  /\ catalog_groups = <<>>
  /\ categories = <<>>
  /\ controls = <<>>
  /\ headlines = <<>>
  /\ category = NoObject
  /\ requirement_headline = NoObject
  /\ current_loop_control_title = Unbound
  /\ current_loop_category = None
  /\ current_loop_control = None
  /\ basic_profile = <<>>
  /\ substantial_profile = <<>>
  /\ high_profile = <<>>
  /\ profile = Unbound
  /\ created_from = <<>>
  /\ open_category = NaN
  /\ open_control = NaN
  /\ rows_ordered = TRUE

InitOver(workbooks) ==
  /\ pc = "start"
  /\ error = NoException
  /\ \E names \in workbooks : LocalsInit(names)
  /\ files = [ f \in FileNames |-> Absent ]

\* An exception nobody catches: run() is unwound, its local variables are
\* gone (they read as before the first statement), and the process ends; the
\* output directory stays as it is.
Raise(exception) ==
  /\ pc' = "failed"
  /\ error' = exception
  /\ sheet_names' = <<>>
  /\ sheet_name' = Unbound
  /\ nrows' = 0
  /\ row' = Unbound
  /\ catalog_groups' = <<>>
  /\ categories' = <<>>
  /\ controls' = <<>>
  /\ headlines' = <<>>
  /\ category' = NoObject
  /\ requirement_headline' = NoObject
  /\ current_loop_control_title' = Unbound
  /\ current_loop_category' = None
  /\ current_loop_control' = None
  /\ basic_profile' = <<>>
  /\ substantial_profile' = <<>>
  /\ high_profile' = <<>>
  /\ profile' = Unbound
  /\ created_from' = <<>>
  /\ open_category' = NaN
  /\ open_control' = NaN
  /\ rows_ordered' = TRUE
  /\ UNCHANGED files

\* --------------------------------------------------------- sheet selection
MatchesControls(key) == Contains(controls_word, lower(key))

\* The for loop of lines 209-211: sheet_name is assigned at every match, so it
\* ends as the last matching key, and stays unassigned when none matches.
RECURSIVE SelectSheetName(_, _)
SelectSheetName(names, selected) ==
  IF names = <<>> THEN selected
  ELSE SelectSheetName(Tail(names),
                       IF MatchesControls(Head(names)) THEN Head(names) ELSE selected)

\* Lines 205-214: pick the sheet and read it; reading raises when sheet_name
\* was never assigned.
SelectSheet ==
  /\ pc = "start"
  /\ \/ /\ SelectSheetName(sheet_names, Unbound) = Unbound
        /\ Raise("UnboundLocalError")
     \/ /\ SelectSheetName(sheet_names, Unbound) # Unbound
        /\ sheet_name' = SelectSheetName(sheet_names, Unbound)
        /\ pc' = "loop"
        /\ UNCHANGED << error, sheet_names, nrows, row, treeVars, localVars,
                        lookBackVars, profileVars, outputVars, orderVars >>

\* ------------------------------------------------------ row classification
\* The three conditions of the if / elif / elif chain (lines 248, 258, 285).
IsCategoryRow(r) == isna(r.control) /\ isna(r.requirement) /\ notna(r.category)
IsControlRow(r) == isna(r.requirement) /\ notna(r.category) /\ notna(r.control)
IsRequirementRow(r) == notna(r.category) /\ notna(r.control) /\ notna(r.requirement)
MatchesNoPattern(r) == ~IsCategoryRow(r) /\ ~IsControlRow(r) /\ ~IsRequirementRow(r)

\* IsNewCategory without its test: every category row counts as a new one.
IsNewCategoryAlways(r) == notna(r.category)

\* The tests "is it a new one" of lines 250 and 260.
IsNewCategory(r) == r.category # current_loop_category \/ current_loop_category = None
IsNewControl(r) == r.control # current_loop_control \/ current_loop_control = None

\* ---------------------------------------------------------------- appends
AppendGroup(groups, ref) == Append(groups, ref)
AppendControl(control_refs, ref) == Append(control_refs, ref)
AppendPart(parts, part) == Append(parts, part)
\* AppendRequirement that leaves out a part whose tier and identifier the
\* headline already holds.
AppendRequirementOnce(parts, requirement) ==
  IF \E i \in 1..Len(parts) :
       parts[i].class = requirement.class
         /\ parts[i].alt_identifier = requirement.alt_identifier
  THEN parts
  ELSE Append(parts, requirement)

AppendRequirement(parts, requirement) == Append(parts, requirement)
AppendIdentifier(identifiers, requirement_key) == Append(identifiers, requirement_key)

\* ------------------------------------------------------ identifier rewrite
basic_requirement_key(requirement_key) == requirement_key

substantial_requirement_key(requirement_key) ==
  IF Last(requirement_key) = "B"
  THEN ButLast(requirement_key) \o <<"S">>
  ELSE requirement_key

\* high_requirement_key with the test of the substantial branch: only a final
\* 'B' is rewritten.
high_requirement_key_basic_only(requirement_key) ==
  IF Last(requirement_key) = "B"
  THEN ButLast(requirement_key) \o <<"H">>
  ELSE requirement_key

high_requirement_key(requirement_key) ==
  IF Last(requirement_key) = "B" \/ Last(requirement_key) = "S"
  THEN ButLast(requirement_key) \o <<"H">>
  ELSE requirement_key

\* ------------------------------------------------------- history of the rows
\* open_category: the id of the latest category row, while no control or
\* category row of another category id has followed it.  open_control: the ids
\* of the latest control row placed under the open category, while no control
\* or category row of another id has followed it.  rows_ordered: every
\* requirement row so far came while its own control was the open control.
RowOrderStep(r) ==
  /\ open_category' =
       IF IsCategoryRow(r) THEN r.category
       ELSE IF IsControlRow(r) /\ r.category # open_category THEN NaN
       ELSE open_category
  /\ open_control' =
       IF IsCategoryRow(r)
       THEN IF open_control # NaN /\ open_control[1] = r.category THEN open_control ELSE NaN
       ELSE IF IsControlRow(r)
       THEN IF r.category = open_category THEN << r.category, r.control >> ELSE NaN
       ELSE open_control
  /\ rows_ordered' =
       (rows_ordered /\ (IsRequirementRow(r) => open_control = << r.category, r.control >>))

\* "for _, row in df.iterrows()" yields another row; the sheet holds at most
\* limit rows.
HasNextRow(limit) ==
  /\ pc = "loop"
  /\ nrows < limit

\* The end of an iteration that did not raise: lines 355-356, and on to the
\* next row.
Continue(r) ==
  /\ nrows' = nrows + 1
  /\ row' = r
  /\ RowOrderStep(r)
  /\ current_loop_category' = r.category
  /\ current_loop_control' = r.control
  /\ UNCHANGED << pc, error, sheetVars, outputVars >>

\* ------------------------------------------------------------ category row
\* Lines 248-255, 355-356.
CategoryRow(r, limit) ==
  /\ HasNextRow(limit)
  /\ IsCategoryRow(r)
  /\ IF IsNewCategory(r)
     THEN /\ categories' = Append(categories, create_category(r.category, r.title))
          /\ category' = Len(categories) + 1
          /\ catalog_groups' = AppendGroup(catalog_groups, Len(categories) + 1)
     ELSE UNCHANGED << categories, category, catalog_groups >>
  /\ Continue(r)
  /\ UNCHANGED << controls, headlines, created_from, requirement_headline,
                  current_loop_control_title, profileVars >>

\* ------------------------------------------------------------- control row
ControlRowException(r) ==
  IF isna(r.title) THEN "AttributeError"
  ELSE IF split(r.title) = <<>> THEN "IndexError"
  ELSE IF category = NoObject THEN "UnboundLocalError"
  ELSE NoException

\* Lines 258-282, 355-356.
ControlRow(r, limit) ==
  /\ HasNextRow(limit)
  /\ IsControlRow(r)
  /\ \/ /\ IsNewControl(r)
        /\ ControlRowException(r) # NoException
        /\ Raise(ControlRowException(r))
     \/ /\ IsNewControl(r)
        /\ ControlRowException(r) = NoException
        /\ LET control == Len(controls) + 1
               headline == Len(headlines) + 1
               objective_headline ==
                 create_objective_headline(r.category, r.title, r.description)
           IN /\ controls' =
                   Append(controls,
                          [ create_control(r.category, r.control, r.title)
                            EXCEPT !.parts =
                              AppendPart(AppendPart(@, objective_headline),
                                         [ ref |-> headline ]) ])
              /\ headlines' =
                   Append(headlines, create_requirement_headline(r.category, r.title))
              /\ categories' =
                   [ categories EXCEPT ![category].controls = AppendControl(@, control) ]
              /\ created_from' = Append(created_from, << r.category, r.control >>)
              /\ requirement_headline' = headline
              /\ current_loop_control_title' = r.title
        /\ Continue(r)
        /\ UNCHANGED << catalog_groups, category, profileVars >>
     \/ /\ ~IsNewControl(r)
        /\ Continue(r)
        /\ UNCHANGED << treeVars, localVars, profileVars >>

\* --------------------------------------------------------- requirement row
Flagged(r, tier) ==
  CASE tier = "basic" -> notna(r.basic)
    [] tier = "substantial" -> notna(r.substantial)
    [] tier = "high" -> notna(r.high)

\* The identifier a tier's branch computes (lines 291, 305-309/318, 331-335/344).
tier_requirement_key(tier, requirement_key) ==
  CASE tier = "basic" -> basic_requirement_key(requirement_key)
    [] tier = "substantial" -> substantial_requirement_key(requirement_key)
    [] tier = "high" -> high_requirement_key(requirement_key)

\* create_requirement is called by the first flagged tier's branch; its
\* arguments read current_loop_control_title, and its body concatenates the
\* description.  The same two values serve every tier of the row.
RequirementRowException(r) ==
  IF ~(\E tier \in Tiers : Flagged(r, tier)) THEN NoException
  ELSE IF current_loop_control_title = Unbound THEN "UnboundLocalError"
  ELSE IF ProseRaises(r.description) THEN "TypeError"
  ELSE NoException

\* TierProfileAfter that appends the raw identifier of the row, not the
\* rewritten one.
TierProfileAfterRawKey(r, tier, identifiers) ==
  IF Flagged(r, tier)
  THEN AppendIdentifier(identifiers, r.requirement)
  ELSE identifiers

\* What one tier's branch appends to the tier's list (lines 297, 314, 323,
\* 340, 349).
TierProfileAfter(r, tier, identifiers) ==
  IF Flagged(r, tier)
  THEN AppendIdentifier(identifiers, tier_requirement_key(tier, r.requirement))
  ELSE identifiers

\* What one tier's branch appends to requirement_headline.parts (lines 300,
\* 326, 352).
TierPartsAfter(r, tier, parts) ==
  IF Flagged(r, tier)
  THEN AppendRequirement(parts,
         create_requirement(tier, tier_requirement_key(tier, r.requirement),
                            r.category, current_loop_control_title, r.description))
  ELSE parts

\* Lines 285-352, 355-356.
RequirementRow(r, limit) ==
  /\ HasNextRow(limit)
  /\ IsRequirementRow(r)
  /\ \/ /\ RequirementRowException(r) # NoException
        /\ Raise(RequirementRowException(r))
     \/ /\ RequirementRowException(r) = NoException
        /\ \E tier \in Tiers : Flagged(r, tier)
        /\ headlines' =
             [ headlines EXCEPT ![requirement_headline].parts =
                 TierPartsAfter(r, "high",
                   TierPartsAfter(r, "substantial",
                     TierPartsAfter(r, "basic", @))) ]
        /\ basic_profile' = TierProfileAfter(r, "basic", basic_profile)
        /\ substantial_profile' = TierProfileAfter(r, "substantial", substantial_profile)
        /\ high_profile' = TierProfileAfter(r, "high", high_profile)
        /\ Continue(r)
        /\ UNCHANGED << catalog_groups, categories, controls, created_from, localVars >>
     \/ /\ ~(\E tier \in Tiers : Flagged(r, tier))
        /\ Continue(r)
        /\ UNCHANGED << treeVars, localVars, profileVars >>

\* --------------------------------------------------- row of no pattern
\* No branch of the chain is taken and there is no else: lines 355-356 only.
OtherRow(r, limit) ==
  /\ HasNextRow(limit)
  /\ MatchesNoPattern(r)
  /\ Continue(r)
  /\ UNCHANGED << treeVars, localVars, profileVars >>

\* ------------------------------------------------------------------ output
\* catalog.oscal_write: the document holds the tree reachable from catalog.groups.
SerializePart(part) ==
  IF "ref" \in DOMAIN part THEN headlines[part.ref] ELSE part

SerializeControl(ref) ==
  [ controls[ref] EXCEPT !.parts = [ i \in 1..Len(@) |-> SerializePart(@[i]) ] ]

SerializeGroup(ref) ==
  [ categories[ref] EXCEPT !.controls = [ i \in 1..Len(@) |-> SerializeControl(@[i]) ] ]

SerializeCatalog ==
  [ groups |-> [ i \in 1..Len(catalog_groups) |-> SerializeGroup(catalog_groups[i]) ] ]

\* Lines 358-367: the rows are exhausted; the catalog is written and the one
\* Profile object is created, importing the catalog by its file name.
WriteCatalog ==
  /\ pc = "loop"
  /\ files' = [ files EXCEPT !["catalog"] = Holding(SerializeCatalog) ]
  /\ profile' = [ imports |-> << [ href |-> "catalog", include_controls |-> None ] >> ]
  /\ pc' = "Basic"
  /\ UNCHANGED << error, sheetVars, nrows, row, treeVars, localVars, lookBackVars,
                  profileVars, orderVars >>

\* ProfileWithSelector that sets the selector only at the first call (the
\* Profile has none yet): the first tier's selector stays in the shared object.
ProfileKeepingFirstSelector(p, control_list) ==
  IF pc = "Basic"
  THEN [ p EXCEPT !.imports[1].include_controls = << [ with_ids |-> control_list ] >> ]
  ELSE p

\* write_profile, lines 179-183: a fresh list holding one fresh selector
\* replaces include_controls of the profile's first import.
ProfileWithSelector(p, control_list) ==
  [ p EXCEPT !.imports[1].include_controls = << [ with_ids |-> control_list ] >> ]

TierList(name) ==
  CASE name = "Basic" -> basic_profile
    [] name = "Substantial" -> substantial_profile
    [] name = "High" -> high_profile

NextFile(name) ==
  CASE name = "Basic" -> "Substantial"
    [] name = "Substantial" -> "High"
    [] name = "High" -> "done"

\* Lines 369-379: one call of write_profile, then profile.oscal_write(path).
WriteProfile(name) ==
  /\ pc = name
  /\ profile' = ProfileWithSelector(profile, TierList(name))
  /\ files' = [ files EXCEPT ![name] = Holding(ProfileWithSelector(profile, TierList(name))) ]
  /\ pc' = NextFile(name)
  /\ UNCHANGED << error, sheetVars, nrows, row, treeVars, localVars, lookBackVars,
                  profileVars, orderVars >>

\* ---------------------------------------------------------- specifications
\* One step of run() over a sheet whose rows come from row_set, of at most
\* limit rows.
NextOver(row_set, limit) ==
  \/ SelectSheet
  \/ \E r \in row_set : CategoryRow(r, limit)
  \/ \E r \in row_set : ControlRow(r, limit)
  \/ \E r \in row_set : RequirementRow(r, limit)
  \/ \E r \in row_set : OtherRow(r, limit)
  \/ WriteCatalog
  \/ \E name \in { "Basic", "Substantial", "High" } : WriteProfile(name)

\* The workbook of the runs that exercise the rows.
OneWorkbook == { << <<"I","n","t","r","o">>, <<"C","o","n","t","r","o","l","s">> >> }

Init == InitOver(OneWorkbook)
Next == NextOver(TreeRows, MaxRows)
Spec == Init /\ [][Next]_vars

InitRequirements == InitOver(OneWorkbook)
NextRequirements == NextOver(RequirementRows, MaxRequirementRows)
SpecRequirements == InitRequirements /\ [][NextRequirements]_vars

InitWorkbooks == InitOver(Workbooks)
NextWorkbooks == NextOver(TreeRows, MaxWorkbookRows)
SpecWorkbooks == InitWorkbooks /\ [][NextWorkbooks]_vars

\* ------------------------------------------------------- reading the tree
Range(s) == { s[i] : i \in 1..Len(s) }

\* The objects reachable from the Catalog.
ReachableGroups == Range(catalog_groups)
ReachableControls == UNION { Range(categories[g].controls) : g \in ReachableGroups }
HeadlinesOf(c) == { p.ref : p \in { q \in Range(controls[c].parts) : "ref" \in DOMAIN q } }
ReachableHeadlines == UNION { HeadlinesOf(c) : c \in ReachableControls }

\* The Requirement parts of a tier reachable from the Catalog, each named by
\* its place: the headline that holds it and its index there.
RequirementPlaces(tier) ==
  UNION { { << h, i >> : i \in { j \in 1..Len(headlines[h].parts) :
                                   headlines[h].parts[j].class = tier } } :
          h \in ReachableHeadlines }

IdentifierAt(place) == headlines[place[1]].parts[place[2]].alt_identifier

TierIdentifiers(tier) ==
  CASE tier = "basic" -> basic_profile
    [] tier = "substantial" -> substantial_profile
    [] tier = "high" -> high_profile

Occurrences(identifiers, key) == Cardinality({ i \in 1..Len(identifiers) : identifiers[i] = key })

AllAbsent == \A f \in FileNames : files[f] = Absent

\* A step of the loop that passed a row: the row is row'.
PassedRow == pc = "loop" /\ pc' = "loop" /\ nrows' = nrows + 1

\* ------------------------------------------------------------------ claims

\* C1: whenever the loop meets a row that matches none of the three patterns
\* (category row, control row, requirement row), run() aborts at that row: no
\* step of the loop passes such a row and goes on.
C1_UnmatchedRowAborts ==
  [][PassedRow => ~MatchesNoPattern(row')]_vars

\* C2: a requirement row met before any control row has established a current
\* control aborts the run, whatever its tier flags: no step of the loop passes
\* a requirement row while requirement_headline is unassigned; and no document
\* has been written when the run has aborted.
C2_RequirementBeforeControlAborts ==
  [][/\ (PassedRow /\ IsRequirementRow(row')) => requirement_headline # NoObject
     /\ pc' = "failed" => AllAbsent']_vars

\* C8: the sheet read is the first sheet, in workbook order, whose name holds
\* "controls" whatever the case; with no such sheet the run aborts before any
\* row is processed or any document written.
FirstMatchingSheet(names) ==
  names[CHOOSE i \in 1..Len(names) :
          MatchesControls(names[i]) /\ \A j \in 1..(i - 1) : ~MatchesControls(names[j])]

C8_FirstMatchingSheetIsRead ==
  [][pc = "start" =>
       IF \E i \in 1..Len(sheet_names) : MatchesControls(sheet_names[i])
       THEN pc' = "loop" /\ sheet_name' = FirstMatchingSheet(sheet_names)
       ELSE pc' = "failed" /\ nrows' = 0 /\ AllAbsent']_vars

\* C9: a requirement row that follows a control row, with at least one tier
\* flag and a blank description, is passed without failure: each flagged tier
\* gets one more Requirement part in the current requirement headline and one
\* more identifier in its list.
FlagCount(r) == Cardinality({ tier \in Tiers : Flagged(r, tier) })

C9_BlankDescriptionStillCreated ==
  [][\A r \in RequirementRows :
       ( /\ IsRequirementRow(r)
         /\ isna(r.description)
         /\ FlagCount(r) > 0
         /\ requirement_headline # NoObject
         /\ RequirementRow(r, MaxRequirementRows) )
       => /\ pc' = "loop"
          /\ Len(headlines'[requirement_headline].parts)
               = Len(headlines[requirement_headline].parts) + FlagCount(r)
          /\ \A tier \in Tiers :
               Len(TierIdentifiers(tier)') =
                 Len(TierIdentifiers(tier)) + (IF Flagged(r, tier) THEN 1 ELSE 0)]_vars

\* C10: every headline that holds Requirement parts belongs to exactly one
\* Control, and that Control is reachable from the Catalog; and when the rows
\* are ordered as required, a requirement row's parts go to the headline of
\* the Control created with the row's category id and control id.
ControlsHolding(h) == { c \in 1..Len(controls) : h \in HeadlinesOf(c) }

C10_RequirementUnderItsControl ==
  /\ \A h \in 1..Len(headlines) :
       headlines[h].parts # <<>> =>
         /\ Cardinality(ControlsHolding(h)) = 1
         /\ ControlsHolding(h) \subseteq ReachableControls
  /\ ( /\ pc = "loop"
       /\ nrows > 0
       /\ rows_ordered
       /\ IsRequirementRow(row)
       /\ FlagCount(row) > 0 )
     => \E c \in ControlsHolding(requirement_headline) :
          created_from[c] = << row.category, row.control >>

\* C3: for each tier, the identifiers of the tier's list are exactly the
\* identifiers of the Requirement parts of that tier reachable from the
\* Catalog, after every row and at the end of the pass.
TreeIdentifiers(tier) == { IdentifierAt(place) : place \in RequirementPlaces(tier) }

C3_ListsMatchTree ==
  \A tier \in Tiers : Range(TierIdentifiers(tier)) = TreeIdentifiers(tier)

C3_Witness ==
  /\ pc = "done"
  /\ Len(basic_profile) >= 1
  /\ Len(substantial_profile) >= 2
  /\ Len(high_profile) >= 1

\* C4 as stated: no identifier occurs twice in a tier's list, and each is the
\* identifier of exactly one Requirement part of the tier reachable from the
\* Catalog.
PlacesOf(tier, key) == { place \in RequirementPlaces(tier) : IdentifierAt(place) = key }

C4_IdentifiersUnique ==
  \A tier \in Tiers :
    /\ Injective(TierIdentifiers(tier))
    /\ \A key \in Range(TierIdentifiers(tier)) : Cardinality(PlacesOf(tier, key)) = 1

\* C4 as amended: an identifier occurs in a tier's list exactly as many times
\* as there are Requirement parts of that tier with that identifier reachable
\* from the Catalog (twice when a row is repeated, or when one row's rewritten
\* identifier equals another row's raw identifier).
C4_OccurrencesMatchTree ==
  \A tier \in Tiers :
    \A key \in Range(TierIdentifiers(tier)) \cup TreeIdentifiers(tier) :
      Occurrences(TierIdentifiers(tier), key) = Cardinality(PlacesOf(tier, key))

C4_Witness ==
  /\ pc = "done"
  /\ basic_profile = << <<"R","1","B">> >>
  /\ substantial_profile = << <<"R","1","S">>, <<"R","1","S">> >>

\* C5: a requirement row with raw identifier r gives the basic tier r, the
\* substantial tier r with a final 'B' replaced by 'S', the high tier r with a
\* final 'B' or 'S' replaced by 'H', and otherwise r unchanged; each flagged
\* tier gets that identifier both in its list and in its Requirement part.
ReplaceFinal(key, finals, letter) ==
  [ i \in 1..Len(key) |-> IF i = Len(key) /\ key[i] \in finals THEN letter ELSE key[i] ]

ExpectedKey(tier, key) ==
  CASE tier = "basic" -> key
    [] tier = "substantial" -> ReplaceFinal(key, { "B" }, "S")
    [] tier = "high" -> ReplaceFinal(key, { "B", "S" }, "H")

ExpectedPart(r, tier) ==
  IF Flagged(r, tier) THEN << << tier, ExpectedKey(tier, r.requirement) >> >> ELSE <<>>

ExpectedParts(r) ==
  ExpectedPart(r, "basic") \o ExpectedPart(r, "substantial") \o ExpectedPart(r, "high")

AddedParts(before, after) ==
  [ i \in 1..(Len(after) - Len(before)) |->
      << after[Len(before) + i].class, after[Len(before) + i].alt_identifier >> ]

C5_TierIdentifiers ==
  [][(PassedRow /\ IsRequirementRow(row')) =>
       /\ basic_profile' =
            IF Flagged(row', "basic")
            THEN Append(basic_profile, ExpectedKey("basic", row'.requirement))
            ELSE basic_profile
       /\ substantial_profile' =
            IF Flagged(row', "substantial")
            THEN Append(substantial_profile, ExpectedKey("substantial", row'.requirement))
            ELSE substantial_profile
       /\ high_profile' =
            IF Flagged(row', "high")
            THEN Append(high_profile, ExpectedKey("high", row'.requirement))
            ELSE high_profile
       /\ FlagCount(row') > 0 =>
            AddedParts(headlines[requirement_headline].parts,
                       headlines'[requirement_headline].parts) = ExpectedParts(row')]_vars

C5_Witness ==
  /\ pc = "loop"
  /\ nrows > 0
  /\ IsRequirementRow(row)
  /\ row.requirement = <<"R","1","B">>
  /\ FlagCount(row) = 3
  /\ Last(basic_profile) = <<"R","1","B">>
  /\ Last(substantial_profile) = <<"R","1","S">>
  /\ Last(high_profile) = <<"R","1","H">>

\* C6 as stated: the Catalog never holds two Categories of the same id, and no
\* Category holds two Controls of the same id.
C6_UniqueKeys ==
  /\ \A i, j \in 1..Len(catalog_groups) :
       i # j => categories[catalog_groups[i]].id # categories[catalog_groups[j]].id
  /\ \A g \in ReachableGroups :
       \A i, j \in 1..Len(categories[g].controls) :
         i # j => controls[categories[g].controls[i]].id # controls[categories[g].controls[j]].id

\* C6 as amended: a category row appends one Category exactly when its id
\* differs from the category field of the row before it (or it is the first
\* row), a control row appends one Control to the latest Category exactly when
\* its id differs from the control field of the row before it, so rows that
\* repeat an id in a row create it once; what is in the Catalog stays, in its
\* order.
IsPrefix(s, t) == Len(s) <= Len(t) /\ SubSeq(t, 1, Len(s)) = s

C6_CreatedWhenIdDiffers ==
  [][/\ pc' # "failed" =>
          /\ IsPrefix(catalog_groups, catalog_groups')
          /\ Len(categories) <= Len(categories')
          /\ \A g \in 1..Len(categories) :
               /\ categories'[g].id = categories[g].id
               /\ IsPrefix(categories[g].controls, categories'[g].controls)
     /\ (PassedRow /\ IsCategoryRow(row')) =>
          IF row'.category # current_loop_category
          THEN /\ Len(catalog_groups') = Len(catalog_groups) + 1
               /\ categories'[Last(catalog_groups')].id = eucs_prefix \o row'.category
               /\ categories'[Last(catalog_groups')].controls = <<>>
               /\ Last(catalog_groups') \notin Range(catalog_groups)
          ELSE catalog_groups' = catalog_groups
     /\ (PassedRow /\ IsControlRow(row')) =>
          IF row'.control # current_loop_control
          THEN /\ Len(controls') = Len(controls) + 1
               /\ created_from'[Len(controls')] = << row'.category, row'.control >>
               /\ categories' =
                    [ categories EXCEPT ![category].controls = Append(@, Len(controls')) ]
          ELSE categories' = categories /\ controls' = controls]_vars

C6_Witness ==
  /\ pc = "loop"
  /\ nrows = 3
  /\ IsCategoryRow(row)
  /\ Len(catalog_groups) = 1
  /\ Len(controls) = 1
  /\ categories[1].id = eucs_prefix \o row.category
  /\ created_from[1][1] = row.category

\* C7: after a successful pass the Basic, Substantial and High profiles have
\* been written in that order, each document holds exactly one selector whose
\* ids are the tier's list as accumulated (order and duplicates kept), and a
\* write leaves every document written before it as it was.
ExpectedProfile(name) ==
  [ imports |-> << [ href |-> "catalog",
                     include_controls |-> << [ with_ids |-> TierList(name) ] >> ] >> ]

ProfileNames == { "Basic", "Substantial", "High" }

C7_ProfilesHoldTheirLists ==
  /\ [](/\ pc = "done" =>
             \A name \in ProfileNames : files[name] = Holding(ExpectedProfile(name))
        /\ files["Basic"] # Absent => files["catalog"] # Absent
        /\ files["Substantial"] # Absent => files["Basic"] # Absent
        /\ files["High"] # Absent => files["Substantial"] # Absent)
  /\ [][\A f \in FileNames : files[f] # Absent => files'[f] = files[f]]_vars

C7_Witness ==
  /\ pc = "done"
  /\ basic_profile = << <<"R","1","B">> >>
  /\ substantial_profile = << <<"R","1","S">>, <<"R","1","S">> >>
  /\ high_profile = << <<"R","1","H">> >>
  /\ files["High"] # Absent

====
